---- MODULE Spec2Model ----
(***************************************************************************)
(* Control flow of script_evaluate_metrics.py: one evaluation run from the *)
(* parsed command line to the plots.  Every variable of the script that is *)
(* bound along the way is a variable of the model, with an explicit        *)
(* "undef" value while the name is not bound (reading it is a NameError).  *)
(* The functions of utils and slam_metrics are modelled by their result    *)
(* shape and by the conditions under which they raise.                     *)
(***************************************************************************)
EXTENDS Integers, Sequences, FiniteSets, TLC

\* Bounds of the model
MaxLen == 3      \* longest input trajectory (number of stamped poses)
MaxPairs == 2    \* largest number of pose pairs RPE returns
MaxDist == 1     \* largest traveled distance of an RPE pair

VARIABLES
    args,               \* parsed command line options
    gt_file, est_file,  \* the two files named on the command line
    pc,                 \* stage the run is about to execute
    error,              \* the exception that ended the run, if any
    out,                \* lines printed so far
    trace,              \* stages executed so far, in order
    gt_dict, est_dict,
    gt_format, est_format,
    gt_poses, est_poses,
    gt_cov, est_cov, gt_cov_,
    scale,
    matches,            \* pairs matched by timestamp association, -1 before it
    align_in,           \* lengths of the trajectories handed to the aligner
    gt_poses_align, est_poses_align,
    T_align_man, T_align_horn,
    rpe_error, rpe_distance,
    ddt,
    computed,           \* metric functions that returned, in order
    plotted

inputs == <<args, gt_file, est_file>>
ctl == <<pc, error, out, trace>>
loadv == <<gt_dict, est_dict, gt_format, est_format>>
posev == <<gt_poses, est_poses, gt_cov, est_cov, gt_cov_, scale>>
alignv == <<align_in, gt_poses_align, est_poses_align, T_align_man, T_align_horn>>
metricv == <<rpe_error, rpe_distance, ddt, computed, plotted>>
vars == <<inputs, ctl, loadv, posev, matches, alignv, metricv>>

----------------------------------------------------------------------------
\* Values

\* a Python name that is not bound yet
Undef == [kind |-> "undef", len |-> 0]
\* a dict keyed by timestamp holding len poses
Poses(n) == [kind |-> "poses", len |-> n]
\* a dict keyed by timestamp holding len covariances
Covs(n) == [kind |-> "cov", len |-> n]
\* the tuple (poses, covariances) returned for the covariance format
PoseCovTuple(n) == [kind |-> "tuple", len |-> n]
\* a single timestamp (a key of a dict)
Key == [kind |-> "key", len |-> 0]

IsMapping(v) == v.kind \in {"poses", "cov"}

NoArray == [def |-> FALSE, val |-> <<>>]
Array(s) == [def |-> TRUE, val |-> s]

NoError == [stage |-> "none", kind |-> "none"]

Min(a, b) == IF a <= b THEN a ELSE b
Max(a, b) == IF a >= b THEN a ELSE b

\* --alignment is a free string: the three documented values and any other
Alignments == {"first", "manifold", "horn", "other"}

Formats == {"tum", "tum_cov", "invalid"}

\* a file on disk: missing, or a file of len records in one format
Files == {[exists |-> FALSE, format |-> "invalid", len |-> 0]} \cup
         [exists : {TRUE}, format : Formats, len : 0..MaxLen]

Args == [alignment : Alignments, ate_manifold : BOOLEAN, rpe : BOOLEAN,
         ddt : BOOLEAN, automatic_scale : BOOLEAN, show_plots : BOOLEAN,
         no_metrics : BOOLEAN, ignore_timestamp_match : BOOLEAN]

\* the statements of the script in program order
Stages == <<"read", "format", "poses", "scale", "associate", "align",
            "ate_horn", "ate_manifold", "rpe", "ddt", "plots", "done">>

StageIndex(s) == CHOOSE i \in 1..Len(Stages) : Stages[i] = s

\* NextStage with the association block placed ahead of the scale block
NextStageAssociateFirst(s) ==
    CASE s = "poses" -> "associate"
      [] s = "associate" -> "scale"
      [] s = "scale" -> "align"
      [] OTHER -> Stages[StageIndex(s) + 1]

\* the stage that follows stage s
NextStage(s) == Stages[StageIndex(s) + 1]

\* an uncaught exception ends the run
Fail(stage, kind) ==
    /\ pc' = "failed"
    /\ error' = [stage |-> stage, kind |-> kind]

Init ==
    /\ args \in Args
    /\ gt_file \in Files
    /\ est_file \in Files
    /\ pc = "read"
    /\ error = NoError
    /\ out = <<>>
    /\ trace = <<>>
    /\ gt_dict = Undef /\ est_dict = Undef
    /\ gt_format = "undef" /\ est_format = "undef"
    /\ gt_poses = Undef /\ est_poses = Undef
    /\ gt_cov = Undef /\ est_cov = Undef /\ gt_cov_ = Undef
    /\ scale = "undef"
    /\ matches = -1
    /\ align_in = <<0, 0>>
    /\ gt_poses_align = Undef /\ est_poses_align = Undef
    /\ T_align_man = "undef" /\ T_align_horn = "undef"
    /\ rpe_error = NoArray /\ rpe_distance = NoArray
    /\ ddt = NoArray
    /\ computed = <<>>
    /\ plotted = FALSE

----------------------------------------------------------------------------
\* utils.read_file_dict: the raw records of a file, or an IOError
read_file_dict(f) == IF f.exists THEN [kind |-> f.format, len |-> f.len] ELSE Undef

\* lines 57-59: read both files
ReadFiles ==
    /\ pc = "read"
    /\ trace' = Append(trace, "read")
    /\ IF ~gt_file.exists
         THEN /\ Fail("read", "IOError")
              /\ UNCHANGED <<gt_dict, est_dict>>
         ELSE /\ gt_dict' = read_file_dict(gt_file)
              /\ IF ~est_file.exists
                   THEN /\ Fail("read", "IOError")
                        /\ UNCHANGED est_dict
                   ELSE /\ est_dict' = read_file_dict(est_file)
                        /\ pc' = NextStage("read")
                        /\ UNCHANGED error
    /\ UNCHANGED <<inputs, out, gt_format, est_format, posev, alignv, metricv, matches>>

\* utils.check_valid_pose_format: the detected format; an unsupported format
\* is fatal
check_valid_pose_format(d) == d.kind

\* lines 61-63: detect the format of both files
CheckFormat ==
    /\ pc = "format"
    /\ trace' = Append(trace, "format")
    /\ IF check_valid_pose_format(gt_dict) = "invalid"
         THEN /\ Fail("format", "FormatError")
              /\ UNCHANGED <<gt_format, est_format>>
         ELSE /\ gt_format' = check_valid_pose_format(gt_dict)
              /\ IF check_valid_pose_format(est_dict) = "invalid"
                   THEN /\ Fail("format", "FormatError")
                        /\ UNCHANGED est_format
                   ELSE /\ est_format' = check_valid_pose_format(est_dict)
                        /\ pc' = NextStage("format")
                        /\ UNCHANGED error
    /\ UNCHANGED <<inputs, out, gt_dict, est_dict, posev, alignv, metricv, matches>>

----------------------------------------------------------------------------
\* utils.convert_file_dict_to_pose_dict: a pose dict for the plain format, the
\* tuple (pose dict, covariance dict) for the covariance format
convert_file_dict_to_pose_dict(d, file_format) ==
    IF file_format = "tum_cov" THEN PoseCovTuple(d.len) ELSE Poses(d.len)

\* the assignment "a, b = v" of lines 67-68: a 2-tuple binds its two items;
\* a dict is iterated over its keys, so that it binds two timestamps when it
\* holds exactly two entries and raises ValueError otherwise
Unpack2(v) ==
    IF v.kind = "tuple"
      THEN [ok |-> TRUE, first |-> Poses(v.len), second |-> Covs(v.len)]
      ELSE IF v.len = 2
             THEN [ok |-> TRUE, first |-> Key, second |-> Key]
             ELSE [ok |-> FALSE, first |-> Undef, second |-> Undef]

\* lines 65-71: generate poses; the branch is taken on gt_format alone
GeneratePoses ==
    /\ pc = "poses"
    /\ trace' = Append(trace, "poses")
    /\ IF gt_format = "tum_cov"
         THEN LET g == Unpack2(convert_file_dict_to_pose_dict(gt_dict, gt_format))
                  e == Unpack2(convert_file_dict_to_pose_dict(est_dict, est_format))
              IN /\ gt_poses' = g.first
                 /\ gt_cov' = g.second
                 /\ IF e.ok
                      THEN /\ est_poses' = e.first
                           /\ est_cov' = e.second
                           /\ pc' = NextStage("poses")
                           /\ UNCHANGED error
                      ELSE /\ Fail("poses", "ValueError")
                           /\ UNCHANGED <<est_poses, est_cov>>
         ELSE /\ gt_poses' = convert_file_dict_to_pose_dict(gt_dict, gt_format)
              /\ est_poses' = convert_file_dict_to_pose_dict(est_dict, est_format)
              /\ pc' = NextStage("poses")
              /\ UNCHANGED <<gt_cov, est_cov, error>>
    /\ UNCHANGED <<inputs, out, loadv, gt_cov_, scale, alignv, metricv, matches>>

\* utils.scale_dict and utils.compute_scale_from_trajectories walk a dict keyed
\* by timestamp: any other argument raises TypeError
scale_dict(d) == d

\* lines 76-85: choose the scale and apply it to poses and covariances
ApplyScale ==
    /\ pc = "scale"
    /\ trace' = Append(trace, "scale")
    /\ IF args.automatic_scale /\ ~(IsMapping(gt_poses) /\ IsMapping(est_poses))
         THEN /\ Fail("scale", "TypeError")
              /\ UNCHANGED <<out, posev>>
         ELSE /\ scale' = IF args.automatic_scale THEN "automatic" ELSE "given"
              /\ out' = Append(out, <<"Using scale">>)
              /\ gt_poses' = scale_dict(gt_poses)
              /\ IF ~IsMapping(est_poses)
                   THEN /\ Fail("scale", "TypeError")
                        /\ UNCHANGED <<est_poses, gt_cov, est_cov, gt_cov_>>
                   ELSE /\ est_poses' = scale_dict(est_poses)
                        /\ IF gt_format = "tum_cov"
                             THEN /\ gt_cov_' = scale_dict(gt_cov)
                                  /\ est_cov' = scale_dict(est_cov)
                             ELSE UNCHANGED <<gt_cov_, est_cov>>
                        /\ pc' = NextStage("scale")
                        /\ UNCHANGED <<error, gt_cov>>
    /\ UNCHANGED <<inputs, loadv, alignv, metricv, matches>>

\* utils.associate_and_filter: m matched pairs give two trajectories of m
\* entries each; fewer than 2 matched pairs is an InsufficientDataError
associate_and_filter(a, b, m) ==
    [raises |-> m < 2,
     first |-> [kind |-> a.kind, len |-> m],
     second |-> [kind |-> b.kind, len |-> m]]

\* the numbers of pairs timestamp matching can produce: every timestamp is
\* used at most once
MatchCounts(a, b) == 0..Min(a.len, b.len)

\* Associate with the association error caught and ignored
AssociateSwallowsError ==
    /\ pc = "associate"
    /\ IF args.ignore_timestamp_match
         THEN /\ pc' = NextStage("associate")
              /\ UNCHANGED <<error, trace, posev, matches>>
         ELSE \E m \in 0..Min(gt_poses.len, est_poses.len) :
                /\ trace' = Append(trace, "associate")
                /\ matches' = m
                /\ IF m < 2
                     THEN UNCHANGED posev
                     ELSE /\ gt_poses' = [gt_poses EXCEPT !.len = m]
                          /\ est_poses' = [est_poses EXCEPT !.len = m]
                          /\ IF gt_format = "tum_cov"
                               THEN /\ gt_cov' = [gt_cov EXCEPT !.len = m]
                                    /\ est_cov' = [est_cov EXCEPT !.len = m]
                               ELSE UNCHANGED <<gt_cov, est_cov>>
                          /\ UNCHANGED <<gt_cov_, scale>>
                /\ pc' = NextStage("associate")
                /\ UNCHANGED error
    /\ UNCHANGED <<inputs, out, loadv, alignv, metricv>>

\* lines 87-91: associate by timestamp unless ignore_timestamp_match is set
Associate ==
    /\ pc = "associate"
    /\ IF args.ignore_timestamp_match
         THEN /\ pc' = NextStage("associate")
              /\ UNCHANGED <<error, trace, posev, matches>>
         ELSE \E m \in MatchCounts(gt_poses, est_poses) :
                LET p == associate_and_filter(gt_poses, est_poses, m)
                    c == associate_and_filter(gt_cov, est_cov, m)
                IN /\ trace' = Append(trace, "associate")
                   /\ matches' = m
                   /\ IF p.raises
                        THEN /\ Fail("associate", "InsufficientDataError")
                             /\ UNCHANGED posev
                        ELSE /\ gt_poses' = p.first
                             /\ est_poses' = p.second
                             /\ IF gt_format = "tum_cov"
                                  THEN gt_cov' = c.first /\ est_cov' = c.second
                                  ELSE UNCHANGED <<gt_cov, est_cov>>
                             /\ pc' = NextStage("associate")
                             /\ UNCHANGED <<error, gt_cov_, scale>>
    /\ UNCHANGED <<inputs, out, loadv, alignv, metricv>>

\* AlignTargets with the Horn call bound to two names, like the first-pose call
AlignTargetsHornPair(alignment) ==
    CASE alignment = "manifold" -> 3
      [] alignment = "horn" -> 2
      [] alignment = "first" -> 2
      [] OTHER -> 0

\* the number of values each alignment call is unpacked into: lines 96, 98
\* and 100 bind three names, line 102 binds two
AlignTargets(alignment) ==
    CASE alignment = "manifold" -> 3
      [] alignment = "horn" -> 3
      [] alignment = "first" -> 2
      [] OTHER -> 0

\* the aligners are defined on matched trajectories: equal length, at least
\* two poses
Matched(g, e) == g.len = e.len /\ g.len >= 2

\* Align with the first metric header printed ahead of the alignment call
AlignAfterHeader ==
    /\ pc = "align"
    /\ out' = IF args.no_metrics THEN out ELSE Append(out, <<"header", "ATE - Horn">>)
    /\ \/ /\ AlignTargets(args.alignment) = 0
          /\ pc' = NextStage("align")
          /\ UNCHANGED <<error, trace, alignv>>
       \/ /\ AlignTargets(args.alignment) > 0
          /\ trace' = Append(trace, "align")
          /\ align_in' = <<gt_poses.len, est_poses.len>>
          /\ \/ /\ gt_poses_align' = gt_poses
                /\ est_poses_align' = est_poses
                /\ T_align_man' = IF args.alignment = "manifold"
                                    THEN "transform" ELSE T_align_man
                /\ T_align_horn' = IF args.alignment = "horn"
                                     THEN "transform" ELSE T_align_horn
                /\ pc' = NextStage("align")
                /\ UNCHANGED error
             \/ /\ ~Matched(gt_poses, est_poses)
                /\ Fail("align", "ValueError")
                /\ UNCHANGED <<gt_poses_align, est_poses_align, T_align_man, T_align_horn>>
    /\ UNCHANGED <<inputs, loadv, posev, matches, metricv>>

\* lines 93-102: align poses; an alignment value that is none of the three
\* names matches no branch
Align ==
    /\ pc = "align"
    /\ \/ /\ AlignTargets(args.alignment) = 0
          /\ pc' = NextStage("align")
          /\ UNCHANGED <<error, trace, alignv>>
       \/ /\ AlignTargets(args.alignment) > 0
          /\ trace' = Append(trace, "align")
          /\ align_in' = <<gt_poses.len, est_poses.len>>
          /\ \/ /\ gt_poses_align' = gt_poses
                /\ est_poses_align' = est_poses
                /\ T_align_man' = IF args.alignment = "manifold" /\ AlignTargets(args.alignment) = 3
                                    THEN "transform" ELSE T_align_man
                /\ T_align_horn' = IF args.alignment = "horn" /\ AlignTargets(args.alignment) = 3
                                     THEN "transform" ELSE T_align_horn
                /\ pc' = NextStage("align")
                /\ UNCHANGED error
             \/ /\ ~Matched(gt_poses, est_poses)
                /\ Fail("align", "ValueError")
                /\ UNCHANGED <<gt_poses_align, est_poses_align, T_align_man, T_align_horn>>
    /\ UNCHANGED <<inputs, out, loadv, posev, matches, metricv>>

----------------------------------------------------------------------------
\* Metric stage

\* slam_metrics.compute_statistics prints the summary of one error sequence
Statistics(variable) == <<"statistics", variable>>

Header(name) == <<"header", name>>

IsMetricOutput(line) == line[1] \in {"header", "statistics"}

AlignedDefined == gt_poses_align.kind # "undef" /\ est_poses_align.kind # "undef"

\* lines 105-122: ATE with Horn's error, overall and per axis; with no_metrics
\* the whole metric block is skipped
ATE_Horn ==
    /\ pc = "ate_horn"
    /\ IF args.no_metrics
         THEN /\ pc' = "plots"
              /\ UNCHANGED <<error, out, trace, computed>>
         ELSE /\ trace' = Append(trace, "ate_horn")
              /\ IF ~AlignedDefined
                   THEN /\ out' = Append(out, Header("ATE - Horn"))
                        /\ Fail("ate_horn", "NameError")
                        /\ UNCHANGED computed
                   ELSE /\ out' = out \o
                            <<Header("ATE - Horn"), Statistics("Absolute"),
                              Header("ATE - Horn - X"), Statistics("Absolute"),
                              Header("ATE - Horn - Y"), Statistics("Absolute"),
                              Header("ATE - Horn - Z"), Statistics("Absolute")>>
                        /\ computed' = computed \o
                            <<"ATE_Horn", "ATE_Horn_X", "ATE_Horn_Y", "ATE_Horn_Z">>
                        /\ pc' = NextStage("ate_horn")
                        /\ UNCHANGED error
    /\ UNCHANGED <<inputs, loadv, posev, alignv, rpe_error, rpe_distance, ddt, plotted, matches>>

\* lines 126-134: ATE on the manifold
ATE_SE3 ==
    /\ pc = "ate_manifold"
    /\ IF args.ate_manifold
         THEN /\ trace' = Append(trace, "ate_manifold")
              /\ out' = out \o <<Header("ATE - Manifold"),
                                 Statistics("Translational"), Statistics("Rotational")>>
              /\ computed' = Append(computed, "ATE_SE3")
         ELSE UNCHANGED <<out, trace, computed>>
    /\ pc' = NextStage("ate_manifold")
    /\ UNCHANGED <<inputs, error, loadv, posev, alignv, rpe_error, rpe_distance, ddt, plotted, matches>>

\* one column of the RPE error: <<translational, rotational>> component;
\* a zero column, a purely translational one and a mixed one
ErrorColumns == {<<0, 0>>, <<1, 0>>, <<2, 1>>}

\* slam_metrics.RPE over n aligned poses: k pose pairs, for each pair the error
\* column and the distance traveled between its two poses
RPEPairCounts(n) == 0..Min(Max(n - 1, 0), MaxPairs)

RPEResults(n) ==
    UNION {[1..k -> [err : ErrorColumns, dist : 0..MaxDist]] : k \in RPEPairCounts(n)}

\* lines 136-148: RPE
RPE ==
    /\ pc = "rpe"
    /\ IF args.rpe
         THEN \E r \in RPEResults(Min(gt_poses_align.len, est_poses_align.len)) :
                /\ trace' = Append(trace, "rpe")
                /\ rpe_error' = Array([i \in 1..Len(r) |-> r[i].err])
                /\ rpe_distance' = Array([i \in 1..Len(r) |-> r[i].dist])
                /\ out' = out \o <<Header("RPE"),
                                   Statistics("Translational"), Statistics("Rotational")>>
                /\ computed' = Append(computed, "RPE")
         ELSE UNCHANGED <<out, trace, computed, rpe_error, rpe_distance>>
    /\ pc' = NextStage("rpe")
    /\ UNCHANGED <<inputs, error, loadv, posev, alignv, ddt, plotted, matches>>

RECURSIVE GCD(_, _)
GCD(a, b) == IF b = 0 THEN a ELSE GCD(b, a % b)

\* floating point division x / d as numpy performs it: a quotient (kept as a
\* reduced fraction) for d # 0, inf for x / 0 and nan for 0 / 0
Inf == [num |-> 1, den |-> 0]
NaN == [num |-> 0, den |-> 0]
Divide(x, d) ==
    IF d = 0
      THEN IF x = 0 THEN NaN ELSE Inf
      ELSE [num |-> x \div GCD(x, d), den |-> d \div GCD(x, d)]

\* np.divide(rpe_error, rpe_distance): every column divided by its distance
np_divide(e, d) ==
    [i \in 1..Len(e) |-> <<Divide(e[i][1], d[i]), Divide(e[i][2], d[i])>>]

\* lines 150-155: DDT
DDT ==
    /\ pc = "ddt"
    /\ IF args.ddt
         THEN /\ trace' = Append(trace, "ddt")
              /\ IF ~(rpe_error.def /\ rpe_distance.def)
                   THEN /\ out' = Append(out, Header("DDT"))
                        /\ Fail("ddt", "NameError")
                        /\ UNCHANGED <<ddt, computed>>
                   ELSE /\ ddt' = Array(np_divide(rpe_error.val, rpe_distance.val))
                        /\ out' = out \o <<Header("DDT"),
                                    Statistics("Translational"), Statistics("Rotational")>>
                        /\ computed' = Append(computed, "DDT")
                        /\ pc' = NextStage("ddt")
                        /\ UNCHANGED error
         ELSE /\ pc' = NextStage("ddt")
              /\ UNCHANGED <<error, out, trace, ddt, computed>>
    /\ UNCHANGED <<inputs, loadv, posev, alignv, rpe_error, rpe_distance, plotted, matches>>

\* lines 157-181: plots of the aligned trajectories
ShowPlots ==
    /\ pc = "plots"
    /\ IF args.show_plots
         THEN /\ trace' = Append(trace, "plots")
              /\ IF ~AlignedDefined
                   THEN /\ Fail("plots", "NameError")
                        /\ UNCHANGED plotted
                   ELSE /\ plotted' = TRUE
                        /\ pc' = NextStage("plots")
                        /\ UNCHANGED error
         ELSE /\ pc' = NextStage("plots")
              /\ UNCHANGED <<error, trace, plotted>>
    /\ UNCHANGED <<inputs, out, loadv, posev, alignv, rpe_error, rpe_distance, ddt, computed, matches>>

Next ==
    \/ ReadFiles
    \/ CheckFormat
    \/ GeneratePoses
    \/ ApplyScale
    \/ Associate
    \/ Align
    \/ ATE_Horn
    \/ ATE_SE3
    \/ RPE
    \/ DDT
    \/ ShowPlots

Spec == Init /\ [][Next]_vars

----------------------------------------------------------------------------
\* Properties

InTrace(stage) == \E i \in 1..Len(trace) : trace[i] = stage

Count(stage) == Cardinality({i \in 1..Len(trace) : trace[i] = stage})

\* the stages upstream of the metric engine
Upstream == {"read", "format", "poses", "scale", "associate", "align"}

DocumentedAlignments == {"first", "manifold", "horn"}

FailedAt(stages) == pc = "failed" /\ error.stage \in stages

Position(order, stage) == CHOOSE i \in 1..Len(order) : order[i] = stage

\* the stages executed so far ran in the given order
FollowsOrder(order) ==
    \A i, j \in 1..Len(trace) :
        i < j => Position(order, trace[i]) < Position(order, trace[j])

\* C1: the DDT stage never executes while the RPE error and the RPE distance
\* are undefined: whenever the DDT stage has run, RPE ran before it
C1_DDTAfterRPE ==
    InTrace("ddt") => InTrace("rpe") /\ rpe_error.def /\ rpe_distance.def

RECURSIVE QuotientsOfNonZero(_, _)
QuotientsOfNonZero(e, d) ==
    IF e = <<>> THEN <<>>
    ELSE LET rest == QuotientsOfNonZero(Tail(e), Tail(d))
         IN IF Head(d) = 0 THEN rest
            ELSE <<<<Divide(Head(e)[1], Head(d)), Divide(Head(e)[2], Head(d))>>>> \o rest

\* C2: the DDT output is exactly the RPE error of each pair divided by its
\* traveled distance for the pairs of non-zero distance; pairs of distance 0
\* are left out and no undefined value (inf, nan) appears in the output
C2_DDTExcludesZeroDistance ==
    ddt.def =>
        /\ ddt.val = QuotientsOfNonZero(rpe_error.val, rpe_distance.val)
        /\ \A i \in 1..Len(ddt.val) : \A c \in 1..2 : ddt.val[i][c].den # 0

\* C3 as stated: load, association, scale, alignment, metrics - the scale is
\* chosen and applied only after the trajectories have been associated
C3_AssociationThenScale ==
    FollowsOrder(<<"read", "format", "poses", "associate", "scale", "align",
                   "ate_horn", "ate_manifold", "rpe", "ddt", "plots">>)

\* C3 amended: the stages execute in the order load, scale selection and
\* application, association, alignment, metrics - the scale is applied to the
\* trajectories before they are associated, alignment and every metric come
\* after both
C3_ScaleThenAssociation ==
    /\ FollowsOrder(<<"read", "format", "poses", "scale", "associate", "align",
                      "ate_horn", "ate_manifold", "rpe", "ddt", "plots">>)
    /\ InTrace("associate") => InTrace("scale") /\ scale # "undef"
    /\ InTrace("align") => InTrace("scale")
    /\ computed # <<>> => InTrace("scale") /\ InTrace("align")

C3_Witness ==
    /\ pc = "done"
    /\ args.automatic_scale
    /\ InTrace("scale") /\ InTrace("associate") /\ InTrace("align")
    /\ InTrace("ddt") /\ InTrace("plots")

\* C4: with ignore_timestamp_match the aligner and the metrics never receive
\* trajectories of unequal length
C4_IgnoreMatchEqualLengths ==
    args.ignore_timestamp_match =>
        /\ InTrace("align") => align_in[1] = align_in[2]
        /\ computed # <<>> => gt_poses_align.len = est_poses_align.len

\* C5: when timestamp association yields fewer than 2 matched pairs the run
\* stops at the association stage with an insufficient-data error, and no
\* aligner and no metric is executed
C5_TooFewMatchesIsFatal ==
    matches \in {0, 1} =>
        /\ pc = "failed"
        /\ error = [stage |-> "associate", kind |-> "InsufficientDataError"]
        /\ ~InTrace("align")
        /\ ~AlignedDefined
        /\ computed = <<>>

C5_Witness ==
    /\ matches = 1
    /\ gt_poses.len >= 2 /\ est_poses.len >= 2
    /\ pc = "failed"

\* the alignment stage ran one of the three strategies and it returned
Aligned ==
    /\ args.alignment \in DocumentedAlignments
    /\ InTrace("align")
    /\ ~FailedAt({"align"})

C7_NoMetricOutputOnUpstreamFailure ==
    FailedAt(Upstream) => \A i \in 1..Len(out) : ~IsMetricOutput(out[i])

C7_Witness ==
    /\ FailedAt({"align"})
    /\ ~args.no_metrics
    /\ Len(out) > 0

\* C8: for every combination of formats of the two files, pose generation
\* yields a pose mapping for both trajectories, a covariance mapping exactly
\* for the trajectories that carry covariances, and the run gets past scaling
C8_CovarianceOptionalPerTrajectory ==
    InTrace("poses") =>
        /\ ~FailedAt({"poses", "scale"})
        /\ gt_poses.kind = "poses" /\ est_poses.kind = "poses"
        /\ gt_cov.kind = "cov" <=> gt_format = "tum_cov"
        /\ est_cov.kind = "cov" <=> est_format = "tum_cov"

\* C9: for every value of the alignment option exactly one alignment strategy
\* has executed, exactly once, when the metric stage or the plotting stage is
\* entered, and the aligned trajectories are defined there
C9_OneAlignmentBeforeMetricsAndPlots ==
    InTrace("ate_horn") \/ InTrace("plots") =>
        Count("align") = 1 /\ AlignedDefined

\* the metrics the options ask for, in the order of the script
ExpectedMetrics(a) ==
    IF a.no_metrics THEN <<>>
    ELSE <<"ATE_Horn", "ATE_Horn_X", "ATE_Horn_Y", "ATE_Horn_Z">>
         \o (IF a.ate_manifold THEN <<"ATE_SE3">> ELSE <<>>)
         \o (IF a.rpe THEN <<"RPE">> ELSE <<>>)
         \o (IF a.ddt THEN <<"DDT">> ELSE <<>>)

\* C10: a run that got through alignment with one of the three strategies
\* computes exactly the metrics its options select, in the order ATE-Horn,
\* ATE-manifold, RPE, DDT
C10_MetricsDeterminedByOptions ==
    /\ pc \in {"done", "failed"}
    /\ ~FailedAt(Upstream)
    /\ args.alignment \in DocumentedAlignments
    => computed = ExpectedMetrics(args)
====
